---- MODULE Spec2Model ----
(***************************************************************************)
(* A model of the YouTube learning manager's data-access layer             *)
(* (Youtube_manager_db.py): the videos and tasks tables of the SQLite      *)
(* database, the functions that write them, the queries that read them,    *)
(* and the menu handlers of main() that pass raw input to them.            *)
(*                                                                         *)
(* A TEXT value that the database compares (a deadline, a date the code    *)
(* formats, a line typed at a prompt) is the sequence of its character     *)
(* codes, compared as SQLite's BINARY collation compares it.  A status, a  *)
(* title and a url are only ever tested for equality and are strings.      *)
(* SQL NULL and Python None are the one value Null.  The columns channel,  *)
(* duration, category, notes, created_date, description and timestamp are  *)
(* written once and read by none of the operations modelled here; they are *)
(* left out of the rows.                                                   *)
(***************************************************************************)
EXTENDS Integers, Sequences, FiniteSets, TLC

VARIABLES videos, tasks, today, last, pre

vars == <<videos, tasks, today, last, pre>>

(***************************************************************************)
(* Bounds of the model.                                                    *)
(***************************************************************************)
\* rows the videos table holds at once
MaxVideos == 2
\* rows the tasks table holds at once
MaxTasks == 2
\* largest magnitude the time_spent counter reaches
MaxTime == 2

\* rowids stay at or below these (a rowid is reused only after the row with
\* the largest rowid is deleted, so it grows without bound otherwise)
MaxId == MaxVideos
MaxTaskId == MaxTasks

(***************************************************************************)
(* Values.                                                                 *)
(***************************************************************************)
Null == [type |-> "null"]
Text(s) == [type |-> "text", v |-> s]

Integer(n) == [type |-> "integer", v |-> n]

\* Python's "x or d" of a number or None x
PyOr(x, d) == IF x = Null THEN d ELSE IF x.v = 0 THEN d ELSE x.v

\* An optional argument of a Python call: <<>> when the caller omits it.
Omitted == <<>>
Given(x) == <<x>>

Max(S) == CHOOSE x \in S : \A y \in S : y <= x

\* the days the clock takes, as day numbers
FirstDay == 8
LastDay == FirstDay + 1

(***************************************************************************)
(* The schema.                                                             *)
(***************************************************************************)
\* priority INTEGER DEFAULT 2, and the default of add_video's parameter
DefaultPriority == 2
ColumnDefaultVideoStatus == "pending"
ColumnDefaultTimeSpent == 0
ColumnDefaultTaskStatus == "pending"

\* a rowid taken from the number of rows
NextRowid_Count(table) == Cardinality(DOMAIN table) + 1

\* INTEGER PRIMARY KEY without AUTOINCREMENT: the largest rowid in use plus
\* one, or 1 in an empty table.
NextRowid(table) ==
    IF DOMAIN table = {} THEN 1 ELSE Max(DOMAIN table) + 1

\* a call, what it returned and what it raised ("none": it returned)
Call(op, args, ret, exc) == [op |-> op, args |-> args, ret |-> ret, exc |-> exc]
\* the two tables
Store == [videos |-> videos, tasks |-> tasks]
EmptyStore == [videos |-> <<>>, tasks |-> <<>>]

Init ==
    /\ videos = <<>>
    /\ tasks = <<>>
    /\ today = FirstDay
    /\ last = Call("start", Null, Null, "none")
    /\ pre = EmptyStore

(***************************************************************************)
(* Text: comparison, formatting, parsing.                                  *)
(***************************************************************************)
\* memcmp order of two TEXT values (BINARY collation): -1, 0 or 1
RECURSIVE TextCmp(_, _)
TextCmp(a, b) ==
    IF a = <<>> /\ b = <<>> THEN 0
    ELSE IF a = <<>> THEN -1
    ELSE IF b = <<>> THEN 1
    ELSE IF Head(a) < Head(b) THEN -1
    ELSE IF Head(a) > Head(b) THEN 1
    ELSE TextCmp(Tail(a), Tail(b))

\* an order with NULL behind every text
SqlCmp_NullsLast(x, y) ==
    IF x = Null /\ y = Null THEN 0
    ELSE IF x = Null THEN 1
    ELSE IF y = Null THEN -1
    ELSE TextCmp(x.v, y.v)

\* the order ORDER BY uses on a nullable TEXT column: NULL before any text
SqlCmp(x, y) ==
    IF x = Null /\ y = Null THEN 0
    ELSE IF x = Null THEN -1
    ELSE IF y = Null THEN 1
    ELSE TextCmp(x.v, y.v)

\* column <= ? in a WHERE clause: a comparison with NULL is not true
SqlLeqTrue(x, y) ==
    /\ x # Null
    /\ y # Null
    /\ TextCmp(x.v, y.v) <= 0

\* character codes
Space == 32
Plus == 43
Minus == 45
Zero == 48
Nine == 57

\* strftime("%Y-%m-%d"): zero-padded, fixed-width decimal fields, most
\* significant first.  A day number is written as two such digits.
FormatDate(d) == <<Zero + (d \div 10), Zero + (d % 10)>>

IsDigit(c) == Zero <= c /\ c <= Nine

\* str.strip() of blanks
RECURSIVE LStrip(_)
LStrip(t) == IF t # <<>> /\ Head(t) = Space THEN LStrip(Tail(t)) ELSE t

RECURSIVE RStrip(_)
RStrip(t) ==
    IF t # <<>> /\ t[Len(t)] = Space THEN RStrip(SubSeq(t, 1, Len(t) - 1)) ELSE t

\* the number a string of decimal digits writes
RECURSIVE DigitsValue(_)
DigitsValue(t) ==
    IF t = <<>> THEN 0
    ELSE 10 * DigitsValue(SubSeq(t, 1, Len(t) - 1)) + (t[Len(t)] - Zero)

\* the literal int(text) reads: blanks around it dropped, a sign, then
\* one digit or more; anything else raises ValueError (ok = FALSE)
IntLiteral(text) ==
    LET t == RStrip(LStrip(text))
        signed == t # <<>> /\ Head(t) \in {Minus, Plus}
        digits == IF signed THEN Tail(t) ELSE t
    IN  [ok |-> digits # <<>> /\ \A i \in 1..Len(digits) : IsDigit(digits[i]),
         neg |-> t # <<>> /\ Head(t) = Minus,
         digits |-> digits]

\* int(text), of a literal short enough for its value to be computed
PyInt(text) ==
    LET lit == IntLiteral(text)
    IN  IF lit.ok
        THEN [ok |-> TRUE,
              v |-> IF lit.neg THEN 0 - DigitsValue(lit.digits)
                    ELSE DigitsValue(lit.digits)]
        ELSE [ok |-> FALSE, v |-> 0]

\* Python's int has no width; a parameter bound to a statement is a 64-bit
\* signed INTEGER, and sqlite3 raises OverflowError for an int outside it.
\* The literals are compared digit by digit, so that their values need not
\* be computed.
RECURSIVE StripZeros(_)
StripZeros(t) ==
    IF Len(t) > 1 /\ Head(t) = Zero THEN StripZeros(Tail(t)) ELSE t

\* str(n), n >= 0
RECURSIVE Decimal(_)
Decimal(n) ==
    IF n < 10 THEN <<Zero + n>>
    ELSE Decimal(n \div 10) \o <<Zero + (n % 10)>>

\* a > b, of two strings of digits without leading zeros
DigitsGreater(a, b) ==
    \/ Len(a) > Len(b)
    \/ /\ Len(a) = Len(b)
       /\ \E i \in 1..Len(a) : /\ a[i] > b[i]
                               /\ \A j \in 1..(i - 1) : a[j] = b[j]

\* 9223372036854775807 = 2^63 - 1 and 9223372036854775808 = 2^63
Int64MaxDigits ==
    <<57, 50, 50, 51, 51, 55, 50, 48, 51, 54, 56, 53, 52, 55, 55, 53, 56, 48, 55>>
Int64MinDigits ==
    <<57, 50, 50, 51, 51, 55, 50, 48, 51, 54, 56, 53, 52, 55, 55, 53, 56, 48, 56>>

SqliteBinds(lit) ==
    ~DigitsGreater(StripZeros(lit.digits),
                   IF lit.neg THEN Int64MinDigits ELSE Int64MaxDigits)

\* the literal writes the number n, n >= 0
LiteralIs(lit, n) ==
    /\ StripZeros(lit.digits) = Decimal(n)
    /\ lit.neg => n = 0

(***************************************************************************)
(* The functions that write the tables.  Each takes the tables S and       *)
(* gives the tables after the commit, with the value returned.             *)
(***************************************************************************)
Returned(V, T, ret) == [videos |-> V, tasks |-> T, ret |-> ret, exc |-> "none"]
Raised(S, exc) == [videos |-> S.videos, tasks |-> S.tasks, ret |-> Null, exc |-> exc]

\* a parameter with a default value
ArgOr(arg, default) == IF arg = Omitted THEN default ELSE arg[1]

\* INSERT INTO videos (title, url, ..., priority, created_date, deadline):
\* status and time_spent take their column defaults
InsertVideo(V, title, url, priority, deadline) ==
    LET id == NextRowid(V)
    IN  V @@ (id :> [id |-> id, title |-> title, url |-> url,
                     priority |-> priority,
                     status |-> ColumnDefaultVideoStatus,
                     deadline |-> deadline,
                     time_spent |-> ColumnDefaultTimeSpent])

add_video(S, title, url, priorityArg, deadlineArg) ==
    LET priority == ArgOr(priorityArg, DefaultPriority)
        deadline == ArgOr(deadlineArg, Null)
    IN  Returned(InsertVideo(S.videos, title, url, priority, deadline),
                 S.tasks, NextRowid(S.videos))

\* INSERT INTO tasks (video_id, description, timestamp): no foreign key is
\* enforced (the connection never sets PRAGMA foreign_keys)
InsertTask(T, video_id) ==
    LET id == NextRowid(T)
    IN  T @@ (id :> [id |-> id, video_id |-> video_id,
                     status |-> ColumnDefaultTaskStatus])

add_task(S, video_id) ==
    Returned(S.videos, InsertTask(S.tasks, video_id), Null)

\* UPDATE videos SET status = ? WHERE id = ?
update_video_status(S, video_id, status) ==
    Returned([id \in DOMAIN S.videos |->
                 IF id = video_id
                 THEN [S.videos[id] EXCEPT !.status = status]
                 ELSE S.videos[id]],
             S.tasks, Null)

\* UPDATE tasks SET status = ? WHERE id = ?
update_task_status(S, task_id, status) ==
    Returned(S.videos,
             [id \in DOMAIN S.tasks |->
                 IF id = task_id
                 THEN [S.tasks[id] EXCEPT !.status = status]
                 ELSE S.tasks[id]],
             Null)

\* the UPDATE that overwrites: SET time_spent = ?
record_time_spent_Overwrite(S, video_id, minutes) ==
    Returned([id \in DOMAIN S.videos |->
                 IF id = video_id
                 THEN [S.videos[id] EXCEPT !.time_spent = minutes]
                 ELSE S.videos[id]],
             S.tasks, Null)

\* UPDATE videos SET time_spent = time_spent + ? WHERE id = ?
record_time_spent(S, video_id, minutes) ==
    Returned([id \in DOMAIN S.videos |->
                 IF id = video_id
                 THEN [S.videos[id] EXCEPT !.time_spent = @ + minutes]
                 ELSE S.videos[id]],
             S.tasks, Null)

\* the DELETE with the wrong column: WHERE id = ?
DeleteTasksOf_ById(T, video_id) ==
    [id \in DOMAIN T \ {video_id} |-> T[id]]

\* DELETE FROM tasks WHERE video_id = ?
DeleteTasksOf(T, video_id) ==
    [id \in {i \in DOMAIN T : T[i].video_id # video_id} |-> T[id]]

\* DELETE FROM videos WHERE id = ?
DeleteVideoRow(V, video_id) ==
    [id \in DOMAIN V \ {video_id} |-> V[id]]

delete_video(S, video_id) ==
    Returned(DeleteVideoRow(S.videos, video_id),
             DeleteTasksOf(S.tasks, video_id), Null)

(***************************************************************************)
(* The queries.                                                            *)
(***************************************************************************)
\* the rows of a table in rowid order, as a scan of the table gives them
RECURSIVE ScanFrom(_, _)
ScanFrom(table, ids) ==
    IF ids = {} THEN <<>>
    ELSE LET lo == CHOOSE i \in ids : \A j \in ids : i <= j
         IN  <<table[lo]>> \o ScanFrom(table, ids \ {lo})

Scan(table) == ScanFrom(table, DOMAIN table)

\* the two ORDER BY clauses of the module, as three-way comparisons of rows
OrderCmp(order, r1, r2) ==
    IF order = "priority, deadline"
    THEN IF r1.priority < r2.priority THEN -1
         ELSE IF r1.priority > r2.priority THEN 1
         ELSE SqlCmp(r1.deadline, r2.deadline)
    ELSE SqlCmp(r1.deadline, r2.deadline)

\* row goes behind the rows that do not sort after it
RECURSIVE SortInsert(_, _, _)
SortInsert(order, row, sorted) ==
    IF sorted = <<>> THEN <<row>>
    ELSE IF OrderCmp(order, Head(sorted), row) <= 0
         THEN <<Head(sorted)>> \o SortInsert(order, row, Tail(sorted))
         ELSE <<row>> \o sorted

\* ORDER BY: rows with equal keys stay in the order of the scan
RECURSIVE OrderBy(_, _)
OrderBy(order, rows) ==
    IF rows = <<>> THEN <<>>
    ELSE SortInsert(order, rows[Len(rows)],
                    OrderBy(order, SubSeq(rows, 1, Len(rows) - 1)))

\* "if status:" is false of None and of the empty string
list_videos_by_status(S, statusArg) ==
    LET all == Scan(S.videos)
        rows == IF statusArg = Omitted THEN all
                ELSE IF statusArg[1] = "" THEN all
                ELSE SelectSeq(all, LAMBDA r : r.status = statusArg[1])
    IN  OrderBy("priority, deadline", rows)

get_video_tasks(S, video_id) ==
    SelectSeq(Scan(S.tasks), LAMBDA t : t.video_id = video_id)

DefaultDays == 7

\* WHERE deadline <= ? AND status != 'completed' ORDER BY deadline
get_upcoming_deadlines(S, now, daysArg) ==
    LET days == ArgOr(daysArg, DefaultDays)
        target_date == Text(FormatDate(now + days))
    IN  OrderBy("deadline",
                SelectSeq(Scan(S.videos),
                          LAMBDA r : /\ SqlLeqTrue(r.deadline, target_date)
                                     /\ r.status # "completed"))

RECURSIVE Gcd(_, _)
Gcd(a, b) == IF b = 0 THEN a ELSE Gcd(b, a % b)

\* an exact quotient n / d (d > 0), in lowest terms
Ratio(n, d) == [num |-> n \div Gcd(n, d), den |-> d \div Gcd(n, d)]

\* SELECT SUM(time_spent): NULL over no rows
RECURSIVE SumTimeSpent(_)
SumTimeSpent(rows) ==
    IF rows = <<>> THEN 0
    ELSE Head(rows).time_spent + SumTimeSpent(Tail(rows))

\* a count of the pending tasks of the videos there are
PendingTasks_OfVideos(S) ==
    SelectSeq(Scan(S.tasks),
              LAMBDA t : t.status = "pending" /\ t.video_id \in DOMAIN S.videos)

\* SELECT ... FROM tasks WHERE status = 'pending'
PendingTasks(S) ==
    SelectSeq(Scan(S.tasks), LAMBDA t : t.status = "pending")

get_learning_stats(S) ==
    LET total == Len(Scan(S.videos))
        completed == Len(SelectSeq(Scan(S.videos),
                                   LAMBDA r : r.status = "completed"))
        sum == IF total = 0 THEN Null
               ELSE Integer(SumTimeSpent(Scan(S.videos)))
        total_time == PyOr(sum, 0)
        pending_tasks == Len(PendingTasks(S))
    IN  [total_videos |-> total,
         completed_videos |-> completed,
         completion_rate |-> IF total > 0 THEN Ratio(completed * 100, total)
                             ELSE Ratio(0, 1),
         total_time_minutes |-> total_time,
         pending_tasks |-> pending_tasks]

\* fetchone(): the row, or None
get_video_details(S, video_id) ==
    IF video_id \in DOMAIN S.videos THEN S.videos[video_id] ELSE Null

\* try: int(video_id), SELECT id FROM videos WHERE id = ?; except
\* ValueError: False.  Only ValueError is caught: the OverflowError of the
\* bind leaves the function.
validate_video_id(S, video_id) ==
    LET lit == IntLiteral(video_id)
    IN  IF ~lit.ok THEN Returned(S.videos, S.tasks, FALSE)
        ELSE IF ~SqliteBinds(lit) THEN Raised(S, "OverflowError")
        ELSE Returned(S.videos, S.tasks,
                      \E id \in DOMAIN S.videos : LiteralIs(lit, id))

(***************************************************************************)
(* The calls.  A call commits its tables and leaves, in last and pre, what *)
(* it was, what it returned and the tables it found.                       *)
(***************************************************************************)
Commit(op, args, r) ==
    /\ videos' = r.videos
    /\ tasks' = r.tasks
    /\ last' = Call(op, args, r.ret, r.exc)
    /\ pre' = Store
    /\ UNCHANGED today

Answer(op, args, ret) == Commit(op, args, Returned(videos, tasks, ret))

VideosFit(V) ==
    /\ Cardinality(DOMAIN V) <= MaxVideos
    /\ \A id \in DOMAIN V : id <= MaxId

TasksFit(T) ==
    /\ Cardinality(DOMAIN T) <= MaxTasks
    /\ \A id \in DOMAIN T : id <= MaxTaskId

TimesFit(V) ==
    \A id \in DOMAIN V : /\ V[id].time_spent <= MaxTime
                         /\ V[id].time_spent >= 0 - MaxTime

AddVideo(title, url, priorityArg, deadlineArg) ==
    LET r == add_video(Store, title, url, priorityArg, deadlineArg)
    IN  /\ VideosFit(r.videos)
        /\ Commit("add_video",
                  [title |-> title, url |-> url, priority |-> priorityArg,
                   deadline |-> deadlineArg], r)

AddTask(video_id) ==
    LET r == add_task(Store, video_id)
    IN  /\ TasksFit(r.tasks)
        /\ Commit("add_task", [video_id |-> video_id], r)

UpdateVideoStatus(video_id, status) ==
    Commit("update_video_status", [video_id |-> video_id, status |-> status],
           update_video_status(Store, video_id, status))

UpdateTaskStatus(task_id, status) ==
    Commit("update_task_status", [task_id |-> task_id, status |-> status],
           update_task_status(Store, task_id, status))

RecordTimeSpent(video_id, minutes) ==
    LET r == record_time_spent(Store, video_id, minutes)
    IN  /\ TimesFit(r.videos)
        /\ Commit("record_time_spent",
                  [video_id |-> video_id, minutes |-> minutes], r)

DeleteVideo(video_id) ==
    Commit("delete_video", [video_id |-> video_id],
           delete_video(Store, video_id))

ListVideosByStatus(statusArg) ==
    Answer("list_videos_by_status", [status |-> statusArg],
           list_videos_by_status(Store, statusArg))

GetVideoTasks(video_id) ==
    Answer("get_video_tasks", [video_id |-> video_id],
           get_video_tasks(Store, video_id))

GetUpcomingDeadlines(daysArg) ==
    Answer("get_upcoming_deadlines", [days |-> daysArg, now |-> today],
           get_upcoming_deadlines(Store, today, daysArg))

GetLearningStats ==
    Answer("get_learning_stats", Null, get_learning_stats(Store))

GetVideoDetails(video_id) ==
    Answer("get_video_details", [video_id |-> video_id],
           get_video_details(Store, video_id))

ValidateVideoId(video_id) ==
    Commit("validate_video_id", [video_id |-> video_id],
           validate_video_id(Store, video_id))

\* midnight passes
Tick ==
    /\ today < LastDay
    /\ today' = today + 1
    /\ UNCHANGED <<videos, tasks, last, pre>>

(***************************************************************************)
(* The menu handlers of main() that hand typed text to the functions.      *)
(***************************************************************************)
\* the "Add a task for this video?" loop of choice 1, answered y n times
RECURSIVE AddTasks(_, _, _)
AddTasks(S, video_id, n) ==
    IF n = 0 THEN S ELSE AddTasks(add_task(S, video_id), video_id, n - 1)

\* choice 1: every prompt's answer goes to add_video as typed, a blank
\* deadline as the empty string; int(priority) raises before the call, and
\* the handler catches it
main_choice_1(S, title, url, priorityRaw, deadlineRaw, nTasks) ==
    LET priority == IF priorityRaw = <<>> THEN <<50>> ELSE priorityRaw
        n == PyInt(priority)
        added == add_video(S, title, url, Given(n.v), Given(Text(deadlineRaw)))
        done == AddTasks(added, added.ret, nTasks)
    IN  IF n.ok THEN Returned(done.videos, done.tasks, added.ret)
        ELSE Raised(S, "ValueError")

\* choices 3, 9: the id typed is checked by validate_video_id and then
\* bound to "WHERE id = ?" as text; the INTEGER affinity of the column
\* makes of it the integer int() made
main_choice_3(S, idRaw, new_status) ==
    LET valid == validate_video_id(S, idRaw)
    IN  IF valid.exc # "none" THEN valid
        ELSE IF ~valid.ret THEN Returned(S.videos, S.tasks, "Invalid video ID!")
        ELSE update_video_status(S, PyInt(idRaw).v, new_status)

main_choice_9(S, idRaw, minutesRaw) ==
    LET valid == validate_video_id(S, idRaw)
    IN  IF valid.exc # "none" THEN valid
        ELSE IF ~valid.ret THEN Returned(S.videos, S.tasks, "Invalid video ID!")
        ELSE IF ~PyInt(minutesRaw).ok THEN Raised(S, "ValueError")
        ELSE record_time_spent(S, PyInt(idRaw).v, PyInt(minutesRaw).v)

MainChoice1(title, url, priorityRaw, deadlineRaw, nTasks) ==
    LET r == main_choice_1(Store, title, url, priorityRaw, deadlineRaw, nTasks)
    IN  /\ VideosFit(r.videos)
        /\ TasksFit(r.tasks)
        /\ Commit("main_choice_1",
                  [title |-> title, url |-> url, priority |-> priorityRaw,
                   deadline |-> deadlineRaw, tasks |-> nTasks], r)

MainChoice3(idRaw, new_status) ==
    Commit("main_choice_3", [video_id |-> idRaw, status |-> new_status],
           main_choice_3(Store, idRaw, new_status))

MainChoice9(idRaw, minutesRaw) ==
    LET r == main_choice_9(Store, idRaw, minutesRaw)
    IN  /\ TimesFit(r.videos)
        /\ Commit("main_choice_9",
                  [video_id |-> idRaw, minutes |-> minutesRaw], r)

(***************************************************************************)
(* The specifications.  Every UPDATE writes one column and reads no other, *)
(* so each specification varies the columns its properties read and keeps  *)
(* the others at one value.                                                *)
(***************************************************************************)
VideoIds == 1..MaxId
TaskIds == 1..MaxTaskId

\* what the menu offers, and a word it does not
VideoStatuses == {"pending", "in-progress", "completed"}
TaskStatuses == {"pending", "completed"}
StatusInputs == {"in-progress", "completed", "watched"}
TaskStatusInputs == {"completed", "watched"}

\* typed ids: "1", "2", " 1", "x", ""
RawIds == {<<49>>, <<50>>, <<32, 49>>, <<120>>, <<>>}

\* more typed ids: "01", "+2", "-1", "999999", "9223372036854775807",
\* "9223372036854775808", "-9223372036854775808"
LongIds ==
    {<<48, 49>>, <<43, 50>>, <<45, 49>>, <<57, 57, 57, 57, 57, 57>>,
     Int64MaxDigits, Int64MinDigits, <<Minus>> \o Int64MinDigits}

\* The two tables and the cascade (the tasks' statuses are varied in
\* SpecStatus and SpecStats).
Next ==
    \/ AddVideo("A", "u", Omitted, Omitted)
    \/ \E v \in VideoIds : AddTask(v)
    \/ \E v \in VideoIds : UpdateVideoStatus(v, "completed")
    \/ \E v \in VideoIds : RecordTimeSpent(v, MaxTime)
    \/ \E v \in VideoIds : DeleteVideo(v)
    \/ \E v \in VideoIds : GetVideoTasks(v)
    \/ \E v \in VideoIds : GetVideoDetails(v)

Spec == Init /\ [][Next]_vars

\* The status columns.
NextStatus ==
    \/ AddVideo("A", "u", Omitted, Omitted)
    \/ \E v \in VideoIds : AddTask(v)
    \/ \E v \in VideoIds, s \in StatusInputs : UpdateVideoStatus(v, s)
    \/ \E t \in TaskIds, s \in TaskStatusInputs : UpdateTaskStatus(t, s)
    \/ \E v \in VideoIds : DeleteVideo(v)
    \/ \E raw \in RawIds, s \in StatusInputs : MainChoice3(raw, s)

SpecStatus == Init /\ [][NextStatus]_vars

\* The time_spent counter.
Minutes == {0 - 1, 0, 1, 2}
\* typed minutes: "2", "-1", "x"
RawMinutes == {<<50>>, <<45, 49>>, <<120>>}

NextTime ==
    \/ AddVideo("A", "u", Omitted, Omitted)
    \/ \E v \in VideoIds, m \in Minutes : RecordTimeSpent(v, m)
    \/ \E v \in VideoIds : DeleteVideo(v)
    \/ \E v \in VideoIds : GetVideoDetails(v)
    \/ \E raw \in RawIds, m \in RawMinutes : MainChoice9(raw, m)

SpecTime == Init /\ [][NextTime]_vars

\* What add_video stores.
Titles == {"", "A"}
Urls == {"", "u"}

NextAdd ==
    \/ \E t \in Titles, u \in Urls, p \in {Omitted, Given(1)} :
          AddVideo(t, u, p, Omitted)
    \/ \E v \in VideoIds : UpdateVideoStatus(v, "completed")
    \/ \E v \in VideoIds : DeleteVideo(v)
    \/ \E v \in VideoIds : GetVideoDetails(v)

SpecAdd == Init /\ [][NextAdd]_vars

\* The statistics.
TaskOwners == {1, 2}

NextStats ==
    \/ AddVideo("A", "u", Omitted, Omitted)
    \/ \E v \in TaskOwners : AddTask(v)
    \/ \E v \in VideoIds : UpdateVideoStatus(v, "completed")
    \/ \E t \in TaskIds : UpdateTaskStatus(t, "completed")
    \/ \E v \in VideoIds : RecordTimeSpent(v, MaxTime)
    \/ \E v \in VideoIds : DeleteVideo(v)
    \/ GetLearningStats

SpecStats == Init /\ [][NextStats]_vars

\* The listing.  A deadline typed as the prompt asks (YYYY-MM-DD) is the
\* text strftime writes for its day; the menu stores a deadline left blank
\* as the empty text.
DeadlineDays == {FirstDay + 1, FirstDay + 2}
Deadlines == {Text(FormatDate(d)) : d \in DeadlineDays}

NextList ==
    \/ \E p \in {Omitted, Given(1), Given(3)},
          d \in {Omitted} \cup {Given(x) : x \in Deadlines} :
          AddVideo("A", "u", p, d)
    \/ MainChoice1("A", "u", <<>>, <<>>, 0)
    \/ \E v \in VideoIds : UpdateVideoStatus(v, "completed")
    \/ \E v \in VideoIds : DeleteVideo(v)
    \/ \E a \in {Omitted, Given(""), Given("pending"), Given("completed")} :
          ListVideosByStatus(a)

SpecList == Init /\ [][NextList]_vars

\* The deadlines.  Typed priorities: "", "1", "x"; typed deadlines: "" and
\* a date.
NextDeadline ==
    \/ \E d \in {Omitted} \cup {Given(x) : x \in Deadlines} :
          AddVideo("A", "u", Omitted, d)
    \/ \E p \in {<<>>, <<49>>, <<120>>},
          d \in {<<>>} \cup {FormatDate(x) : x \in DeadlineDays},
          n \in {0, 1} :
          MainChoice1("A", "u", p, d, n)
    \/ \E v \in VideoIds : UpdateVideoStatus(v, "completed")
    \/ \E v \in VideoIds : DeleteVideo(v)
    \/ \E a \in {Omitted, Given(0), Given(1)} : GetUpcomingDeadlines(a)
    \/ Tick

SpecDeadline == Init /\ [][NextDeadline]_vars

\* The ids a user types, against stores with videos added and deleted.
NextValidate ==
    \/ AddVideo("A", "u", Omitted, Omitted)
    \/ \E v \in VideoIds : UpdateVideoStatus(v, "completed")
    \/ \E v \in VideoIds : DeleteVideo(v)
    \/ \E raw \in RawIds \cup LongIds : ValidateVideoId(raw)

SpecValidate == Init /\ [][NextValidate]_vars

(***************************************************************************)
(* Properties.  In each, last is the call that has just returned, pre the  *)
(* tables it found and videos, tasks the tables it left.                   *)
(***************************************************************************)
\* the rows of pre that a call on video_id has no business with
OtherVideosKept(video_id) ==
    /\ DOMAIN videos \ {video_id} = DOMAIN pre.videos \ {video_id}
    /\ \A v \in DOMAIN pre.videos \ {video_id} : videos[v] = pre.videos[v]

OtherTasksKept(video_id) ==
    LET others(T) == {t \in DOMAIN T : T[t].video_id # video_id}
    IN  /\ others(tasks) = others(pre.tasks)
        /\ \A t \in others(pre.tasks) : tasks[t] = pre.tasks[t]

\* C1: once delete_video(video_id) has returned, no task refers to
\* video_id, get_video_tasks(video_id) is empty, get_video_details(video_id)
\* finds nothing, and the videos and tasks of other ids are as they were.
C1_DeleteVideoCascades ==
    last.op = "delete_video" =>
        LET video_id == last.args.video_id
        IN  /\ \A t \in DOMAIN tasks : tasks[t].video_id # video_id
            /\ get_video_tasks(Store, video_id) = <<>>
            /\ get_video_details(Store, video_id) = Null
            /\ video_id \notin DOMAIN videos
            /\ OtherVideosKept(video_id)
            /\ OtherTasksKept(video_id)

\* a video with a task is deleted while another video with a task stays
C1_Witness ==
    /\ last.op = "delete_video"
    /\ last.args.video_id \in DOMAIN pre.videos
    /\ \E t \in DOMAIN pre.tasks : pre.tasks[t].video_id = last.args.video_id
    /\ \E v \in DOMAIN videos : \E t \in DOMAIN tasks : tasks[t].video_id = v

\* C2: every stored task refers to a video that exists, and add_task with
\* a video_id of no video raises NotFoundError and stores no task.
C2_TasksReferToVideos ==
    /\ \A t \in DOMAIN tasks : tasks[t].video_id \in DOMAIN videos
    /\ (last.op = "add_task" /\ last.args.video_id \notin DOMAIN pre.videos)
          => (last.exc = "NotFoundError" /\ tasks = pre.tasks)

\* C10: delete_video of an id that no video has raises nothing and leaves
\* the videos and the tasks exactly as they were.
C10_DeleteAbsentIsNoOp ==
    (last.op = "delete_video" /\ last.args.video_id \notin DOMAIN pre.videos)
        => /\ last.exc = "none"
           /\ videos = pre.videos
           /\ tasks = pre.tasks

\* C8: every video's status is pending, in-progress or completed and every
\* task's is pending or completed; update_video_status and
\* update_task_status raise ValidationError on another status and
\* NotFoundError on an id that does not exist, and then change nothing.
C8_StatusesAreValid ==
    /\ \A v \in DOMAIN videos : videos[v].status \in VideoStatuses
    /\ \A t \in DOMAIN tasks : tasks[t].status \in TaskStatuses
    /\ (last.op = "update_video_status" /\ last.args.status \notin VideoStatuses)
          => (last.exc = "ValidationError" /\ Store = pre)
    /\ (last.op = "update_task_status" /\ last.args.status \notin TaskStatuses)
          => (last.exc = "ValidationError" /\ Store = pre)
    /\ (last.op = "update_video_status" /\ last.args.status \in VideoStatuses
        /\ last.args.video_id \notin DOMAIN pre.videos)
          => (last.exc = "NotFoundError" /\ Store = pre)
    /\ (last.op = "update_task_status" /\ last.args.status \in TaskStatuses
        /\ last.args.task_id \notin DOMAIN pre.tasks)
          => (last.exc = "NotFoundError" /\ Store = pre)

\* C9: no call lowers a video's time_spent, no time_spent is negative, and
\* record_time_spent raises ValidationError on negative minutes and leaves
\* the counter alone.
C9_TimeSpentNeverDecreases ==
    /\ \A v \in DOMAIN videos : videos[v].time_spent >= 0
    /\ \A v \in DOMAIN videos \cap DOMAIN pre.videos :
          last.op # "add_video" => videos[v].time_spent >= pre.videos[v].time_spent
    /\ (last.op = "record_time_spent" /\ last.args.minutes < 0)
          => (last.exc = "ValidationError" /\ videos = pre.videos)

\* C3: record_time_spent(id, m1) and then record_time_spent(id, m2), id a
\* video's and m1, m2 not negative, leave time_spent at what it was plus
\* m1 + m2, which is where the two calls in the other order leave it, and
\* leave every other video's time_spent as it was.
C3_TimeSpentAccumulates ==
    [][(/\ last.op = "record_time_spent"
        /\ last'.op = "record_time_spent"
        /\ last'.args.video_id = last.args.video_id
        /\ last.args.video_id \in DOMAIN pre.videos
        /\ last.args.minutes >= 0
        /\ last'.args.minutes >= 0)
       => LET id == last.args.video_id
              m1 == last.args.minutes
              m2 == last'.args.minutes
              swapped == record_time_spent(record_time_spent(pre, id, m2),
                                           id, m1)
          IN  /\ videos'[id].time_spent
                    = pre.videos[id].time_spent + m1 + m2
              /\ videos'[id].time_spent = swapped.videos[id].time_spent
              /\ \A v \in DOMAIN pre.videos \ {id} :
                    /\ v \in DOMAIN videos'
                    /\ videos'[v].time_spent = pre.videos[v].time_spent
      ]_vars

\* a second positive amount is recorded on a video whose counter an
\* earlier call raised, beside another video with time of its own
C3_Witness ==
    /\ last.op = "record_time_spent"
    /\ last.args.video_id \in DOMAIN pre.videos
    /\ last.args.minutes > 0
    /\ pre.videos[last.args.video_id].time_spent > 0
    /\ videos[last.args.video_id].time_spent
          > pre.videos[last.args.video_id].time_spent
    /\ \E v \in DOMAIN videos \ {last.args.video_id} : videos[v].time_spent > 0

\* C4: add_video(title, url) with neither empty returns an id no video
\* had, and get_video_details(id) then gives that title and url, priority
\* 2, status pending and time_spent 0; the videos there were stay.
C4_AddVideoStoresDefaults ==
    (last.op = "add_video" /\ last.args.title # "" /\ last.args.url # "")
        => LET row == get_video_details(Store, last.ret)
           IN  /\ last.exc = "none"
               /\ last.ret \notin DOMAIN pre.videos
               /\ \A v \in DOMAIN pre.videos :
                     v \in DOMAIN videos /\ videos[v] = pre.videos[v]
               /\ row # Null
               /\ row.id = last.ret
               /\ row.title = last.args.title
               /\ row.url = last.args.url
               /\ (last.args.priority = Omitted => row.priority = 2)
               /\ (last.args.priority # Omitted
                      => row.priority = last.args.priority[1])
               /\ row.status = "pending"
               /\ row.time_spent = 0

\* add_video(title, url) beside a video that is already completed
C4_Witness ==
    /\ last.op = "add_video"
    /\ last.args.title # ""
    /\ last.args.url # ""
    /\ last.args.priority = Omitted
    /\ \E v \in DOMAIN pre.videos : pre.videos[v].status = "completed"
    /\ last.ret \in DOMAIN videos

RECURSIVE TimeOver(_, _)
TimeOver(V, ids) ==
    IF ids = {} THEN 0
    ELSE LET v == CHOOSE x \in ids : TRUE
         IN  V[v].time_spent + TimeOver(V, ids \ {v})

\* C5: get_learning_stats returns the number of videos, the number of
\* completed videos, the sum of time_spent over the videos, the number of
\* pending tasks whatever video they refer to, and completion_rate =
\* completed / total * 100; with no video the rate and the counts are 0.
C5_StatsAreRecomputed ==
    last.op = "get_learning_stats" =>
        LET total == Cardinality(DOMAIN videos)
            completed == Cardinality({v \in DOMAIN videos :
                                         videos[v].status = "completed"})
            rate == last.ret.completion_rate
        IN  /\ last.exc = "none"
            /\ last.ret.total_videos = total
            /\ last.ret.completed_videos = completed
            /\ last.ret.total_time_minutes = TimeOver(videos, DOMAIN videos)
            /\ last.ret.pending_tasks
                  = Cardinality({t \in DOMAIN tasks :
                                    tasks[t].status = "pending"})
            /\ rate.den > 0
            /\ (total > 0 => rate.num * total = completed * 100 * rate.den)
            /\ (total = 0 => /\ rate.num = 0
                             /\ last.ret.completed_videos = 0
                             /\ last.ret.total_time_minutes = 0)

\* statistics over two videos, one completed, with time spent, and a
\* pending and a completed task of different videos
C5_Witness ==
    /\ last.op = "get_learning_stats"
    /\ last.ret.total_videos = 2
    /\ last.ret.completed_videos = 1
    /\ last.ret.total_time_minutes > 0
    /\ last.ret.pending_tasks = 1
    /\ Cardinality(DOMAIN tasks) = 2
    /\ \E t, u \in DOMAIN tasks : tasks[t].video_id # tasks[u].video_id

\* C6: list_videos_by_status returns exactly the videos with the status
\* given, or all of them when none is given (None or the empty string,
\* which is how "if status:" reads it), by priority ascending and, among
\* equal priorities, with the videos without deadline (NULL, or the blank
\* the menu stores) first and the others by the date of their deadline; a
\* priority 1 video is never behind a priority 3 video.
C6_ListIsFilteredAndOrdered ==
    last.op = "list_videos_by_status" =>
        LET status == last.args.status
            none == \/ status = Omitted
                    \/ status[1] = ""
            wanted == {v \in DOMAIN videos :
                          none \/ videos[v].status = status[1]}
            rows == last.ret
            absent(r) == r.deadline = Null \/ r.deadline = Text(<<>>)
            day(r) == CHOOSE d \in DeadlineDays :
                          r.deadline = Text(FormatDate(d))
        IN  /\ {rows[i] : i \in 1..Len(rows)} = {videos[v] : v \in wanted}
            /\ Len(rows) = Cardinality(wanted)
            /\ \A i, j \in 1..Len(rows) :
                  i < j =>
                     /\ rows[i].priority <= rows[j].priority
                     /\ ~(rows[i].priority = 3 /\ rows[j].priority = 1)
                     /\ rows[i].priority = rows[j].priority
                           => \/ absent(rows[i])
                              \/ /\ ~absent(rows[j])
                                 /\ day(rows[i]) <= day(rows[j])

\* a listing that puts a later row first: a priority 1 video before a
\* priority 3 video added earlier
C6_Witness ==
    /\ last.op = "list_videos_by_status"
    /\ Len(last.ret) = 2
    /\ last.ret[1].priority = 1
    /\ last.ret[2].priority = 3
    /\ last.ret[1].id > last.ret[2].id

\* C7: get_upcoming_deadlines(days) returns exactly the videos that have a
\* deadline on or before today + days and are not completed, by deadline
\* ascending; a video added with no deadline, by add_video or by the menu
\* with the deadline prompt left blank, is never among them.
C7_UpcomingAreDatedAndOpen ==
    last.op = "get_upcoming_deadlines" =>
        LET days == IF last.args.days = Omitted THEN 7 ELSE last.args.days[1]
            limit == last.args.now + days
            dated(r) == \E d \in DeadlineDays : r.deadline = Text(FormatDate(d))
            day(r) == CHOOSE d \in DeadlineDays :
                          r.deadline = Text(FormatDate(d))
            wanted == {v \in DOMAIN videos :
                          /\ dated(videos[v])
                          /\ day(videos[v]) <= limit
                          /\ videos[v].status # "completed"}
            rows == last.ret
        IN  /\ {rows[i] : i \in 1..Len(rows)} = {videos[v] : v \in wanted}
            /\ Len(rows) = Cardinality(wanted)
            /\ \A i, j \in 1..Len(rows) :
                  i < j => day(rows[i]) <= day(rows[j])

(***************************************************************************)
(* C11: add_video called with an empty title or an empty url fails with    *)
(* ValidationError before any write and adds no record, so that every      *)
(* video of every reachable store has a non-empty title and a non-empty    *)
(* url.                                                                    *)
(***************************************************************************)
C11_TitleAndUrlAreNotEmpty ==
    /\ \A id \in DOMAIN videos : /\ videos[id].title # ""
                                /\ videos[id].url # ""
    /\ (last.op = "add_video" /\ (last.args.title = "" \/ last.args.url = ""))
          => /\ last.exc = "ValidationError"
             /\ videos = pre.videos
             /\ tasks = pre.tasks

(***************************************************************************)
(* C12: for every raw input and every reachable store, validate_video_id   *)
(* returns true exactly when the input parses as an integer that is the id *)
(* of a video of the store, returns false otherwise, never raises, and     *)
(* changes nothing in the store.                                           *)
(***************************************************************************)
C12_ValidateVideoIdIsTotal ==
    last.op = "validate_video_id" =>
        /\ last.exc = "none"
        /\ last.ret = (/\ IntLiteral(last.args.video_id).ok
                       /\ \E id \in DOMAIN pre.videos :
                              LiteralIs(IntLiteral(last.args.video_id), id))
        /\ videos = pre.videos
        /\ tasks = pre.tasks
====
